---- MODULE Spec2Model ----
(***************************************************************************)
(* Model of copy-template.sh: the scaffolding script that copies the       *)
(* template tree into a destination, derives a slug and a display name     *)
(* from the destination's basename and rewrites the placeholder tokens of  *)
(* app.json and package.json.                                              *)
(*                                                                         *)
(* Text is a sequence of one-character strings.  The filesystem is         *)
(* restricted to the destination directory and the two target files; the   *)
(* outcome of every external command the environment decides (mkdir,       *)
(* rsync, the operator's answer, an I/O failure of sed, which sed is       *)
(* installed) is a nondeterministic choice.                                *)
(***************************************************************************)
EXTENDS Integers, Sequences, FiniteSets, TLC

\* ---------------------------------------------------------------- bounds
\* longest destination path drawn from Chars for a whole run of the script
MaxLen ==
    2

\* longest destination path drawn from Chars for the derivation step alone
MaxDeriveLen ==
    4

\* ------------------------------------------------------------- characters
NL ==
    "\n"

Uppers ==
    <<"A", "B", "C", "D", "E", "F", "G", "H", "I", "J", "K", "L", "M", "N", "O", "P", "Q", "R", "S", "T", "U", "V", "W", "X", "Y", "Z">>

Lowers ==
    <<"a", "b", "c", "d", "e", "f", "g", "h", "i", "j", "k", "l", "m", "n", "o", "p", "q", "r", "s", "t", "u", "v", "w", "x", "y", "z">>

\* ------------------------------------------------- the script's constants
PLACEHOLDER_SLUG_APP_JSON ==
    <<"l", "e", "n", "m", "i", "e", "-", "e", "x", "p", "o", "-", "t", "e", "m", "p", "l", "a", "t", "e">>

PLACEHOLDER_BUNDLE_ID_PREFIX ==
    <<"c", "o", "m", ".", "j", "a", "v", "i", "s", "o", ".">>

\* ----------------------------------------------------------- text tools
Digits ==
    {"0", "1", "2", "3", "4", "5", "6", "7", "8", "9"}

LowerSet ==
    {Lowers[k] : k \in 1..Len(Lowers)}

\* tr '[:upper:]' '[:lower:]' on one character
ToLower(c) ==
    IF \E k \in 1..Len(Uppers) : Uppers[k] = c
    THEN Lowers[CHOOSE k \in 1..Len(Uppers) : Uppers[k] = c]
    ELSE c

\* \U applied to one character of [a-z]
ToUpper(c) ==
    IF \E k \in 1..Len(Lowers) : Lowers[k] = c
    THEN Uppers[CHOOSE k \in 1..Len(Lowers) : Lowers[k] = c]
    ELSE c

\* the bracket expression [a-z0-9]
IsAlnum(c) ==
    c \in LowerSet \cup Digits

\* position i is the first character of a line of s
AtLineStart(s, i) ==
    i = 1 \/ s[i - 1] = NL

\* position i is the last character of a line of s
AtLineEnd(s, i) ==
    i = Len(s) \/ s[i + 1] = NL

\* $(...) removes every trailing newline of the command's output
RECURSIVE StripTrailingNL(_)
StripTrailingNL(s) ==
    IF s # <<>> /\ s[Len(s)] = NL
    THEN StripTrailingNL(SubSeq(s, 1, Len(s) - 1))
    ELSE s

RECURSIVE StripTrailingSlashes(_)
StripTrailingSlashes(s) ==
    IF s # <<>> /\ s[Len(s)] = "/"
    THEN StripTrailingSlashes(SubSeq(s, 1, Len(s) - 1))
    ELSE s

\* basename(1): the last component of a path; "/" for a path of slashes only
BasenameOf(path) ==
    LET p == StripTrailingSlashes(path)
        cut == {k \in 1..Len(p) : p[k] = "/"}
        last == IF cut = {} THEN 0 ELSE CHOOSE k \in cut : \A j \in cut : j <= k
    IN  IF path = <<>> THEN <<>>
        ELSE IF p = <<>> THEN <<"/">>
        ELSE SubSeq(p, last + 1, Len(p))

\* bash's echo takes an argument -[neE]+ as options and prints no text for it
IsEchoOption(s) ==
    /\ Len(s) >= 2
    /\ s[1] = "-"
    /\ \A k \in 2..Len(s) : s[k] \in {"n", "e", "E"}

\* the text echo "$x" sends down the pipe, without its final newline
EchoText(s) ==
    IF IsEchoOption(s) THEN <<>> ELSE s

\* tr '[:upper:]' '[:lower:]'
TrLower(s) ==
    [k \in 1..Len(s) |-> ToLower(s[k])]

\* sed -E 's/[^a-z0-9]+/-/g': sed works line by line, so a newline is never
\* part of a run and is copied
RECURSIVE SqueezeFrom(_, _)
SqueezeFrom(s, i) ==
    IF i > Len(s) THEN <<>>
    ELSE IF IsAlnum(s[i]) \/ s[i] = NL THEN <<s[i]>> \o SqueezeFrom(s, i + 1)
    ELSE IF i > 1 /\ ~IsAlnum(s[i - 1]) /\ s[i - 1] # NL THEN SqueezeFrom(s, i + 1)
    ELSE <<"-">> \o SqueezeFrom(s, i + 1)

SqueezeNonAlnum(s) ==
    SqueezeFrom(s, 1)

\* position i lies in a run of hyphens that starts its line
InLeadingHyphens(s, i) ==
    \E j \in 1..i : AtLineStart(s, j) /\ \A k \in j..i : s[k] = "-"

\* position i lies in a run of hyphens that ends its line
InTrailingHyphens(s, i) ==
    \E j \in i..Len(s) : AtLineEnd(s, j) /\ \A k \in i..j : s[k] = "-"

RECURSIVE TrimFrom(_, _)
TrimFrom(s, i) ==
    IF i > Len(s) THEN <<>>
    ELSE IF InLeadingHyphens(s, i) \/ InTrailingHyphens(s, i) THEN TrimFrom(s, i + 1)
    ELSE <<s[i]>> \o TrimFrom(s, i + 1)

\* sed -E 's/^-+|-+$//g'
TrimHyphens(s) ==
    TrimFrom(s, 1)

\* sed -E 's/[^a-z0-9]/-/g' | sed -E 's/^-|-$//g': both + signs dropped
HyphenateEach(s) ==
    [k \in 1..Len(s) |-> IF IsAlnum(s[k]) \/ s[k] = NL THEN s[k] ELSE "-"]

RECURSIVE TrimOneFrom(_, _)
TrimOneFrom(s, i) ==
    IF i > Len(s) THEN <<>>
    ELSE IF s[i] = "-" /\ (AtLineStart(s, i) \/ AtLineEnd(s, i)) THEN TrimOneFrom(s, i + 1)
    ELSE <<s[i]>> \o TrimOneFrom(s, i + 1)

Slug_noPlus(b) ==
    StripTrailingNL(TrimOneFrom(HyphenateEach(TrLower(EchoText(b))), 1))

\* APP_SLUG=$(echo "$BASENAME" | tr ... | sed -E ... | sed -E ...)
Slug(b) ==
    StripTrailingNL(TrimHyphens(SqueezeNonAlnum(TrLower(EchoText(b)))))

\* sed -E 's/(^|-)([a-z])/\U\2/g': a match is a lowercase letter at the start
\* of a line, or a hyphen and the lowercase letter after it; the replacement
\* is group 2 only.  GNU sed uppercases it; a sed without \U writes a
\* literal U before it.
RECURSIVE CapitalizeFrom(_, _, _)
CapitalizeFrom(s, i, impl) ==
    LET out(c) == IF impl = "gnu" THEN <<ToUpper(c)>> ELSE <<"U", c>>
    IN  IF i > Len(s) THEN <<>>
        ELSE IF AtLineStart(s, i) /\ s[i] \in LowerSet
             THEN out(s[i]) \o CapitalizeFrom(s, i + 1, impl)
        ELSE IF s[i] = "-" /\ i < Len(s) /\ s[i + 1] \in LowerSet
             THEN out(s[i + 1]) \o CapitalizeFrom(s, i + 2, impl)
        ELSE <<s[i]>> \o CapitalizeFrom(s, i + 1, impl)

\* tr '-' ' '
TrHyphenToSpace(s) ==
    [k \in 1..Len(s) |-> IF s[k] = "-" THEN " " ELSE s[k]]

\* APP_NAME=$(echo "$APP_SLUG" | sed -E 's/(^|-)([a-z])/\U\2/g' | tr '-' ' ')
AppName(slug, impl) ==
    StripTrailingNL(TrHyphenToSpace(CapitalizeFrom(EchoText(slug), 1, impl)))

\* the regular expression pat (literal characters and the wildcard .)
\* matches s at position i
MatchAt(s, i, pat) ==
    /\ i + Len(pat) - 1 <= Len(s)
    /\ \A k \in 1..Len(pat) :
          \/ pat[k] = "." /\ s[i + k - 1] # NL
          \/ pat[k] # "." /\ pat[k] = s[i + k - 1]

\* sed -e "s#pat#repl#g": every non-overlapping match, left to right; the
\* text from position i on, the next match being the leftmost one at or
\* after i
RECURSIVE SubstFrom(_, _, _, _)
SubstFrom(s, i, pat, repl) ==
    LET hits == {j \in i..Len(s) : MatchAt(s, j, pat)}
    IN  IF hits = {} THEN SubSeq(s, i, Len(s))
        ELSE LET j == CHOOSE h \in hits : \A g \in hits : h <= g
             IN  SubSeq(s, i, j - 1) \o repl \o SubstFrom(s, j + Len(pat), pat, repl)

SedSubstG(s, pat, repl) ==
    SubstFrom(s, 1, pat, repl)

\* "s#${PLACEHOLDER_SLUG_APP_JSON}#${APP_SLUG}#g"
GenericSubst(content, slug) ==
    SedSubstG(content, PLACEHOLDER_SLUG_APP_JSON, slug)

\* "s#${PLACEHOLDER_BUNDLE_ID_PREFIX}${PLACEHOLDER_SLUG_APP_JSON}#${PLACEHOLDER_BUNDLE_ID_PREFIX}${APP_SLUG}#g"
BundleIdSubst(content, slug) ==
    SedSubstG(content, PLACEHOLDER_BUNDLE_ID_PREFIX \o PLACEHOLDER_SLUG_APP_JSON,
              PLACEHOLDER_BUNDLE_ID_PREFIX \o slug)

\* the s command is cut short by a newline in the replacement: sed rejects it
ScriptParses(slug) ==
    \A k \in 1..Len(slug) : slug[k] # NL

\* ------------------------------------------------------------- inputs
\* an app.json with the template's slug and bundle identifier fields
TemplateAppJson ==
    <<"\"", "s", "l", "u", "g", "\"", ":", " ", "\"", "l", "e", "n", "m", "i", "e", "-", "e", "x", "p", "o", "-", "t", "e", "m", "p", "l", "a", "t", "e", "\"", ",", " ", "\"", "b", "u", "n", "d", "l", "e", "I", "d", "e", "n", "t", "i", "f", "i", "e", "r", "\"", ":", " ", "\"", "c", "o", "m", ".", "j", "a", "v", "i", "s", "o", ".", "l", "e", "n", "m", "i", "e", "e", "x", "p", "o", "t", "e", "m", "p", "l", "a", "t", "e", "\"">>

\* an app.json whose package identifier carries the slug placeholder
HyphenatedAppJson ==
    <<"\"", "p", "a", "c", "k", "a", "g", "e", "\"", ":", " ", "\"", "c", "o", "m", ".", "j", "a", "v", "i", "s", "o", ".", "l", "e", "n", "m", "i", "e", "-", "e", "x", "p", "o", "-", "t", "e", "m", "p", "l", "a", "t", "e", "\"">>

\* a package.json naming the template
TemplatePackageJson ==
    <<"\"", "n", "a", "m", "e", "\"", ":", " ", "\"", "l", "e", "n", "m", "i", "e", "-", "e", "x", "p", "o", "-", "t", "e", "m", "p", "l", "a", "t", "e", "\"">>

DestTaco ==
    <<"t", "a", "c", "o", "-", "a", "p", "p">>

DestAwesome ==
    <<".", ".", "/", "n", "e", "w", "-", "a", "w", "e", "s", "o", "m", "e", "-", "a", "p", "p">>

DestCool ==
    <<"M", "y", "_", "C", "o", "o", "l", " ", "A", "p", "p", "!", "!">>

DestUnderscores ==
    <<"_", "_", "_">>

DestTemplate2 ==
    <<"l", "e", "n", "m", "i", "e", "-", "e", "x", "p", "o", "-", "t", "e", "m", "p", "l", "a", "t", "e", "-", "2">>

ExampleDests ==
    {DestTaco, DestAwesome, DestCool, DestUnderscores, DestTemplate2}

\* characters of the enumerated destination paths: a letter that is also an
\* echo option, an uppercase letter, a digit, a hyphen, another
\* non-alphanumeric character, the path separator and a newline
Chars ==
    {"e", "B", "2", "-", "_", "/", NL}

RECURSIVE SeqsUpTo(_)
SeqsUpTo(n) ==
    IF n = 0 THEN {<<>>}
    ELSE LET shorter == SeqsUpTo(n - 1)
         IN  shorter \cup {Append(s, c) : s \in {t \in shorter : Len(t) = n - 1}, c \in Chars}

\* a path starting with a hyphen is an option to mkdir, rsync and basename,
\* not a destination
Dests ==
    ExampleDests \cup {s \in SeqsUpTo(MaxLen) : s = <<>> \/ s[1] # "-"}

DeriveDests ==
    ExampleDests \cup {s \in SeqsUpTo(MaxDeriveLen) : s # <<>> /\ s[1] # "-"}

Argvs ==
    {<<>>} \cup {<<d>> : d \in Dests} \cup {<<d, d>> : d \in ExampleDests}

\* a file of the destination or of the template: absent, or its content
Absent ==
    <<>>

File(content) ==
    <<content>>

OldContent ==
    <<"o", "l", "d">>

AppJsonChoices ==
    {Absent, File(TemplateAppJson), File(HyphenatedAppJson)}

PackageJsonChoices ==
    {Absent, File(TemplatePackageJson)}

\* what the operator can type at read -n 1: one character, or nothing
Replies ==
    {"y", "Y", "n", ""}

\* exit statuses of rsync: success, or a partial transfer
RsyncStatuses ==
    {0, 23}

SedImpls ==
    {"gnu", "bsd"}

\* ------------------------------------------------------------- the script
TARGET_FILES ==
    <<"app.json", "package.json">>

Targets ==
    {TARGET_FILES[k] : k \in 1..Len(TARGET_FILES)}

VARIABLES
    argv,         \* the positional arguments
    pc,           \* the step the script is at
    TARGET_DIR,
    REPLY,
    status,       \* $?
    exitCode,     \* -1 while the script runs
    out,          \* the messages printed, as <<kind, argument>>
    destExists,   \* [ -d "$TARGET_DIR" ]
    destFiles,    \* the target files under $TARGET_DIR
    srcFiles,     \* the target files of the template tree
    sedImpl,      \* the sed installed
    rsyncStatus,  \* exit status of rsync, -1 before it ran
    BASENAME,
    APP_SLUG,
    APP_NAME,
    fileIdx,      \* position of the for loop in TARGET_FILES
    sedLog        \* the sed commands run: file, pass, exit status, edit done

vars ==
    <<argv, pc, TARGET_DIR, REPLY, status, exitCode, out, destExists, destFiles,
      srcFiles, sedImpl, rsyncStatus, BASENAME, APP_SLUG, APP_NAME, fileIdx, sedLog>>

Msg(kind, arg) ==
    <<kind, arg>>

Init ==
    /\ argv \in Argvs
    /\ pc = "args"
    /\ TARGET_DIR = <<>>
    /\ REPLY = ""
    /\ status = 0
    /\ exitCode = -1
    /\ out = <<>>
    /\ destExists \in BOOLEAN
    /\ destExists => Len(argv) = 1 /\ argv[1] # <<>>
    /\ (Len(argv) = 1 /\ BasenameOf(argv[1]) = <<"/">>) => destExists
    /\ destFiles \in IF destExists
                      THEN {[f \in Targets |-> Absent], [f \in Targets |-> File(OldContent)]}
                      ELSE {[f \in Targets |-> Absent]}
    /\ srcFiles \in {[f \in Targets |-> IF f = "app.json" THEN a ELSE p] :
                       a \in AppJsonChoices, p \in PackageJsonChoices}
    /\ sedImpl \in SedImpls
    /\ rsyncStatus = -1
    /\ BASENAME = <<>>
    /\ APP_SLUG = <<>>
    /\ APP_NAME = <<>>
    /\ fileIdx = 1
    /\ sedLog = <<>>

\* exit N
Exit(code) ==
    /\ pc' = "done"
    /\ exitCode' = code

\* 1. if [ "$#" -ne 1 ]; ... TARGET_DIR=$1
CheckArgs ==
    /\ pc = "args"
    /\ IF Len(argv) # 1
       THEN /\ out' = Append(out, Msg("Usage", ""))
            /\ Exit(1)
            /\ UNCHANGED TARGET_DIR
       ELSE /\ TARGET_DIR' = argv[1]
            /\ pc' = "target"
            /\ UNCHANGED <<out, exitCode>>
    /\ UNCHANGED <<argv, REPLY, status, destExists, destFiles, srcFiles, sedImpl,
                   rsyncStatus, BASENAME, APP_SLUG, APP_NAME, fileIdx, sedLog>>

\* [[ $REPLY =~ ^[nN]$ ]] as the test for cancelling: an empty answer continues
Affirmative_defaultYes(r) ==
    r \notin {"n", "N"}

\* [[ $REPLY =~ ^[yY]$ ]]
Affirmative(r) ==
    r \in {"y", "Y"}

\* 2. the target directory exists: read -n 1 -r and continue or cancel
ConfirmOverwrite ==
    /\ pc = "target"
    /\ destExists
    /\ \E r \in Replies :
          /\ REPLY' = r
          /\ IF ~Affirmative(r)
             THEN /\ out' = out \o <<Msg("TargetExists", ""), Msg("Cancelled", "")>>
                  /\ Exit(1)
             ELSE /\ out' = out \o <<Msg("TargetExists", ""), Msg("TargetDirectory", "")>>
                  /\ pc' = "copy"
                  /\ UNCHANGED exitCode
    /\ UNCHANGED <<argv, TARGET_DIR, status, destExists, destFiles, srcFiles, sedImpl,
                   rsyncStatus, BASENAME, APP_SLUG, APP_NAME, fileIdx, sedLog>>

\* 2. the target directory does not exist: mkdir -p "$TARGET_DIR" || { ...; exit 1; }
CreateTargetDir ==
    /\ pc = "target"
    /\ ~destExists
    /\ \E ok \in BOOLEAN :
          /\ ok => TARGET_DIR # <<>>
          /\ IF ok
             THEN /\ destExists' = TRUE
                  /\ out' = Append(out, Msg("TargetDirectory", ""))
                  /\ pc' = "copy"
                  /\ UNCHANGED exitCode
             ELSE /\ out' = Append(out, Msg("CouldNotCreate", ""))
                  /\ Exit(1)
                  /\ UNCHANGED destExists
    /\ UNCHANGED <<argv, TARGET_DIR, REPLY, status, destFiles, srcFiles, sedImpl,
                   rsyncStatus, BASENAME, APP_SLUG, APP_NAME, fileIdx, sedLog>>

\* if [ $? -eq 1 ]: only rsync's status 1 taken for a failure
CopyFailed_onlyOne(st) ==
    st = 1

\* if [ $? -ne 0 ] after rsync
CopyFailed(st) ==
    st # 0

\* 3. rsync -av ... "./" "$TARGET_DIR/": a successful run leaves every file of
\* the template in the destination, a failed one any part of them
CopyTree ==
    /\ pc = "copy"
    /\ \E st \in RsyncStatuses :
       \E copied \in SUBSET {f \in Targets : srcFiles[f] # Absent} :
          /\ st = 0 => copied = {f \in Targets : srcFiles[f] # Absent}
          /\ destFiles' = [f \in Targets |-> IF f \in copied THEN srcFiles[f] ELSE destFiles[f]]
          /\ rsyncStatus' = st
          /\ status' = st
          /\ IF CopyFailed(st)
             THEN /\ out' = out \o <<Msg("Copying", ""), Msg("CopyError", "")>>
                  /\ Exit(1)
             ELSE /\ out' = out \o <<Msg("Copying", ""), Msg("Copied", "")>>
                  /\ pc' = "derive"
                  /\ UNCHANGED exitCode
    /\ UNCHANGED <<argv, TARGET_DIR, REPLY, destExists, srcFiles, sedImpl,
                   BASENAME, APP_SLUG, APP_NAME, fileIdx, sedLog>>

\* 4. BASENAME, APP_SLUG and APP_NAME
DeriveIdentifiers ==
    /\ pc = "derive"
    /\ BASENAME' = StripTrailingNL(BasenameOf(TARGET_DIR))
    /\ APP_SLUG' = Slug(BASENAME')
    /\ APP_NAME' = AppName(APP_SLUG', sedImpl)
    /\ out' = out \o <<Msg("DerivedName", ""), Msg("DerivedSlug", ""), Msg("Replacing", "")>>
    /\ status' = 0
    /\ fileIdx' = 1
    /\ pc' = "loop"
    /\ UNCHANGED <<argv, TARGET_DIR, REPLY, exitCode, destExists, destFiles, srcFiles,
                   sedImpl, rsyncStatus, sedLog>>

\* one run of sed -i '' -e "s#...#...#g" "$FILE_PATH" on content, where edited
\* is the content after the substitution.  A script that does not parse and
\* an I/O failure leave the file alone.  GNU sed takes '' for an input file
\* it cannot read: it edits $FILE_PATH all the same and exits with 2.
SedRun(content, edited, slug, ioFails, impl) ==
    IF ~ScriptParses(slug) THEN [content |-> content, status |-> 1, applied |-> FALSE]
    ELSE IF ioFails THEN [content |-> content, status |-> IF impl = "gnu" THEN 4 ELSE 1,
                          applied |-> FALSE]
    ELSE [content |-> edited, status |-> IF impl = "gnu" THEN 2 ELSE 0, applied |-> TRUE]

\* $? at the check of line 115: the status of the if statement before it,
\* which is the bundle-id sed's for app.json and 0 when the condition is false
StatusBeforeCheck(f, genericStatus, bundleStatus) ==
    IF f = "app.json" THEN bundleStatus ELSE 0

LoopPc(idx) ==
    IF idx >= Len(TARGET_FILES) THEN "report" ELSE "loop"

\* one iteration of the for loop on a file that exists
RewriteFile ==
    /\ pc = "loop"
    /\ fileIdx <= Len(TARGET_FILES)
    /\ destFiles[TARGET_FILES[fileIdx]] # Absent
    /\ \E io1 \in BOOLEAN, io2 \in BOOLEAN :
          LET f == TARGET_FILES[fileIdx]
              c0 == destFiles[f][1]
              r1 == SedRun(c0, GenericSubst(c0, APP_SLUG), APP_SLUG, io1, sedImpl)
              r2 == SedRun(r1.content, BundleIdSubst(r1.content, APP_SLUG), APP_SLUG, io2, sedImpl)
              isApp == f = "app.json"
              final == IF isApp THEN r2.content ELSE r1.content
              st == StatusBeforeCheck(f, r1.status, r2.status)
              log1 == [file |-> f, pass |-> "generic", status |-> r1.status, applied |-> r1.applied]
              log2 == [file |-> f, pass |-> "bundle", status |-> r2.status, applied |-> r2.applied]
          IN  /\ isApp \/ ~io2
              /\ destFiles' = [destFiles EXCEPT ![f] = File(final)]
              /\ sedLog' = sedLog \o (IF isApp THEN <<log1, log2>> ELSE <<log1>>)
              /\ out' = out \o <<Msg("Processing", f)>> \o
                        (IF st # 0 THEN <<Msg("FailedToProcess", f)>> ELSE <<>>)
    /\ status' = 0
    /\ fileIdx' = fileIdx + 1
    /\ pc' = LoopPc(fileIdx)
    /\ UNCHANGED <<argv, TARGET_DIR, REPLY, exitCode, destExists, srcFiles, sedImpl,
                   rsyncStatus, BASENAME, APP_SLUG, APP_NAME>>

\* a missing file taken for fatal: exit 1 from the else branch
SkipMissingFile_abort ==
    /\ pc = "loop"
    /\ fileIdx <= Len(TARGET_FILES)
    /\ destFiles[TARGET_FILES[fileIdx]] = Absent
    /\ out' = Append(out, Msg("NotFound", TARGET_FILES[fileIdx]))
    /\ status' = 0
    /\ fileIdx' = fileIdx + 1
    /\ Exit(1)
    /\ UNCHANGED <<argv, TARGET_DIR, REPLY, destExists, destFiles, srcFiles,
                   sedImpl, rsyncStatus, BASENAME, APP_SLUG, APP_NAME, sedLog>>

\* one iteration of the for loop on a file that does not exist
SkipMissingFile ==
    /\ pc = "loop"
    /\ fileIdx <= Len(TARGET_FILES)
    /\ destFiles[TARGET_FILES[fileIdx]] = Absent
    /\ out' = Append(out, Msg("NotFound", TARGET_FILES[fileIdx]))
    /\ status' = 0
    /\ fileIdx' = fileIdx + 1
    /\ pc' = LoopPc(fileIdx)
    /\ UNCHANGED <<argv, TARGET_DIR, REPLY, exitCode, destExists, destFiles, srcFiles,
                   sedImpl, rsyncStatus, BASENAME, APP_SLUG, APP_NAME, sedLog>>

\* the check aggregating the statuses of the loop's sed commands
FinalCheckStatus_aggregate(echoStatus, log) ==
    IF \E k \in 1..Len(log) : log[k].status # 0 THEN 1 ELSE echoStatus

\* $? at the check of line 125, after echo "---" has run
FinalCheckStatus(echoStatus, log) ==
    echoStatus

\* 5. echo "---"; if [ $? -eq 0 ]; ... else ...; exit 1
Report ==
    /\ pc = "report"
    /\ LET st == FinalCheckStatus(0, sedLog)
       IN  IF st = 0
           THEN /\ out' = out \o <<Msg("Replaced", ""), Msg("SetupComplete", "")>>
                /\ Exit(0)
           ELSE /\ out' = Append(out, Msg("ReplaceError", ""))
                /\ Exit(1)
    /\ status' = 0
    /\ UNCHANGED <<argv, TARGET_DIR, REPLY, destExists, destFiles, srcFiles, sedImpl,
                   rsyncStatus, BASENAME, APP_SLUG, APP_NAME, fileIdx, sedLog>>

Next ==
    \/ CheckArgs
    \/ ConfirmOverwrite
    \/ CreateTargetDir
    \/ CopyTree
    \/ DeriveIdentifiers
    \/ RewriteFile
    \/ SkipMissingFile
    \/ Report

Spec ==
    Init /\ [][Next]_vars

\* the derivation step alone, from the state a successful copy leaves
InitDerive ==
    /\ argv \in {<<d>> : d \in DeriveDests}
    /\ pc = "derive"
    /\ TARGET_DIR = argv[1]
    /\ REPLY = ""
    /\ status = 0
    /\ exitCode = -1
    /\ out = <<Msg("TargetDirectory", ""), Msg("Copying", ""), Msg("Copied", "")>>
    /\ destExists = TRUE
    /\ srcFiles = [f \in Targets |-> IF f = "app.json" THEN File(TemplateAppJson)
                                                        ELSE File(TemplatePackageJson)]
    /\ destFiles = srcFiles
    /\ sedImpl \in SedImpls
    /\ rsyncStatus = 0
    /\ BASENAME = <<>>
    /\ APP_SLUG = <<>>
    /\ APP_NAME = <<>>
    /\ fileIdx = 1
    /\ sedLog = <<>>

NextDerive ==
    DeriveIdentifiers

SpecDerive ==
    InitDerive /\ [][NextDerive]_vars

\* ================================================================ claims
Printed(kind, arg) ==
    \E k \in 1..Len(out) : out[k] = Msg(kind, arg)

Contains(s, sub) ==
    \E i \in 1..(Len(s) - Len(sub) + 1) : SubSeq(s, i, i + Len(sub) - 1) = sub

IndexOf(f) ==
    CHOOSE k \in 1..Len(TARGET_FILES) : TARGET_FILES[k] = f

\* the for loop has finished its iteration on f
IterationDone(f) ==
    pc \in {"loop", "report", "done"} /\ rsyncStatus = 0 /\ fileIdx > IndexOf(f)

\* every sed command run on f made its edit
AllApplied(f) ==
    /\ \E k \in 1..Len(sedLog) : sedLog[k].file = f
    /\ \A k \in 1..Len(sedLog) : sedLog[k].file = f => sedLog[k].applied

\* only [a-z0-9] and hyphens, no hyphen first or last, no two hyphens together
IsSlugForm(s) ==
    /\ \A k \in 1..Len(s) : s[k] \in LowerSet \cup Digits \cup {"-"}
    /\ s # <<>> => s[1] # "-" /\ s[Len(s)] # "-"
    /\ \A k \in 1..(Len(s) - 1) : ~(s[k] = "-" /\ s[k + 1] = "-")

\* the slug's hyphen-separated segments, first character uppercased, joined
\* by single spaces
ExpectedDisplayName(slug) ==
    [k \in 1..Len(slug) |->
        IF slug[k] = "-" THEN " "
        ELSE IF k = 1 \/ slug[k - 1] = "-" THEN ToUpper(slug[k])
        ELSE slug[k]]

SlugFieldTaco ==
    <<"\"", "s", "l", "u", "g", "\"", ":", " ", "\"", "t", "a", "c", "o", "-", "a", "p", "p", "\"">>

BundleFieldTaco ==
    <<"\"", "b", "u", "n", "d", "l", "e", "I", "d", "e", "n", "t", "i", "f", "i", "e", "r", "\"", ":", " ", "\"", "c", "o", "m", ".", "j", "a", "v", "i", "s", "o", ".", "t", "a", "c", "o", "-", "a", "p", "p", "\"">>

SlugAwesome ==
    <<"n", "e", "w", "-", "a", "w", "e", "s", "o", "m", "e", "-", "a", "p", "p">>

NameAwesome ==
    <<"N", "e", "w", " ", "A", "w", "e", "s", "o", "m", "e", " ", "A", "p", "p">>

SlugCool ==
    <<"m", "y", "-", "c", "o", "o", "l", "-", "a", "p", "p">>

NameCool ==
    <<"M", "y", " ", "C", "o", "o", "l", " ", "A", "p", "p">>

\* C1: after a run with destination "taco-app" on the template's app.json,
\* app.json contains "slug": "taco-app" and
\* "bundleIdentifier": "com.javiso.taco-app".
C1_TacoAppJson ==
    ( /\ pc = "done"
      /\ exitCode = 0
      /\ TARGET_DIR = DestTaco
      /\ srcFiles["app.json"] = File(TemplateAppJson)
      /\ AllApplied("app.json") )
    => /\ destFiles["app.json"] # Absent
       /\ Contains(destFiles["app.json"][1], SlugFieldTaco)
       /\ Contains(destFiles["app.json"][1], BundleFieldTaco)

\* C2: the display name is the slug's hyphen-separated segments, each with
\* its first character uppercased, joined by single spaces; "../new-awesome-app"
\* gives "new-awesome-app" and "New Awesome App", "My_Cool App!!" gives
\* "my-cool-app" and "My Cool App".
C2_DisplayName ==
    pc = "loop" =>
       /\ APP_NAME = ExpectedDisplayName(APP_SLUG)
       /\ TARGET_DIR = DestAwesome => APP_SLUG = SlugAwesome /\ APP_NAME = NameAwesome
       /\ TARGET_DIR = DestCool => APP_SLUG = SlugCool /\ APP_NAME = NameCool

\* C3: no sed runs on a target file unless rsync has exited with 0; when
\* rsync exits non-zero the script is over with exit code 1 and no sed has run.
C3_NoRewriteBeforeCopy ==
    /\ (sedLog # <<>> \/ \E f \in Targets : Printed("Processing", f)) => rsyncStatus = 0
    /\ pc \in {"derive", "loop", "report"} => rsyncStatus = 0
    /\ rsyncStatus \notin {-1, 0} => pc = "done" /\ exitCode = 1 /\ sedLog = <<>>

C3_Witness ==
    /\ rsyncStatus = 23
    /\ pc = "done"
    /\ exitCode = 1
    /\ destFiles["app.json"] = File(TemplateAppJson)
    /\ destFiles["package.json"] = Absent
    /\ srcFiles["package.json"] # Absent

\* C4: when the destination directory exists and the answer is neither y nor
\* Y, the step ends the run with exit code 1 and changes neither the
\* directory nor a file; a cancelled run has copied and rewritten nothing.
C4_DeclineNoSideEffects ==
    /\ [][(pc = "target" /\ destExists /\ REPLY' \notin {"y", "Y"})
            => (pc' = "done" /\ exitCode' = 1 /\ UNCHANGED <<destExists, destFiles>>)]_vars
    /\ [](Printed("Cancelled", "") =>
            /\ pc = "done"
            /\ exitCode = 1
            /\ rsyncStatus = -1
            /\ sedLog = <<>>
            /\ ~Printed("Copying", ""))

C4_Witness ==
    /\ pc = "done"
    /\ exitCode = 1
    /\ REPLY = ""
    /\ Printed("Cancelled", "")
    /\ destFiles["app.json"] = File(OldContent)

\* C5: the derived slug has only lowercase letters, digits and hyphens, no
\* hyphen first or last, and no two adjacent hyphens.
C5_SlugForm ==
    pc = "loop" => IsSlugForm(APP_SLUG)

\* C6: slug derivation is idempotent, and a basename already in slug form is
\* its own slug.
C6_SlugIdempotent ==
    pc = "loop" =>
       /\ Slug(APP_SLUG) = APP_SLUG
       /\ IsSlugForm(BASENAME) => APP_SLUG = BASENAME

C6_Witness ==
    /\ pc = "loop"
    /\ APP_SLUG # <<>>
    /\ APP_SLUG # BASENAME
    /\ Len(BASENAME) >= 3

\* C7: every sed command that fails on a target file gets the
\* 'Failed to process file' warning for that file, and the run goes on to
\* the other files and the reporter.
C7_FailureWarned ==
    /\ \A k \in 1..Len(sedLog) :
          sedLog[k].status # 0 => Printed("FailedToProcess", sedLog[k].file)
    /\ pc = "done" /\ sedLog # <<>> => fileIdx > Len(TARGET_FILES)

\* C8: a target file absent after a successful copy gets the not-found
\* warning and no sed; every present target file is still processed; the
\* run ends in the reporter.
C8_MissingFileSkipped ==
    /\ \A f \in Targets :
          (IterationDone(f) /\ destFiles[f] = Absent) =>
             /\ Printed("NotFound", f)
             /\ ~Printed("Processing", f)
             /\ \A k \in 1..Len(sedLog) : sedLog[k].file # f
    /\ \A g \in Targets :
          (IterationDone(g) /\ destFiles[g] # Absent) =>
             /\ Printed("Processing", g)
             /\ \E k \in 1..Len(sedLog) : sedLog[k].file = g
    /\ (pc = "done" /\ rsyncStatus = 0 /\ \E f \in Targets : destFiles[f] = Absent) =>
          /\ fileIdx > Len(TARGET_FILES)
          /\ Printed("Replaced", "") \/ Printed("ReplaceError", "")

C8_Witness ==
    /\ pc = "done"
    /\ rsyncStatus = 0
    /\ destFiles["package.json"] = Absent
    /\ destFiles["app.json"] # Absent
    /\ Printed("NotFound", "package.json")
    /\ Printed("Processing", "app.json")

\* C9: after the generic substitution and the bundle-id substitution,
\* app.json is its original content with each occurrence of the slug
\* placeholder replaced by the derived slug once.
C9_SubstitutionsCompose ==
    ( /\ IterationDone("app.json")
      /\ srcFiles["app.json"] # Absent
      /\ AllApplied("app.json") )
    => destFiles["app.json"] = File(GenericSubst(srcFiles["app.json"][1], APP_SLUG))

\* C10: a run whose copy step succeeded ends with exit code 0 and the
\* success banner, whatever sed failed and whichever file was missing; after
\* the copy the script is in its derivation, loop or report step or done;
\* the reporter's failure branch is never taken.
C10_CopySucceededExitsZero ==
    /\ (pc = "done" /\ rsyncStatus = 0) =>
          exitCode = 0 /\ Printed("SetupComplete", "")
    /\ rsyncStatus = 0 => pc \in {"derive", "loop", "report", "done"}
    /\ ~Printed("ReplaceError", "")

C10_Witness ==
    /\ pc = "done"
    /\ exitCode = 0
    /\ Printed("SetupComplete", "")
    /\ Printed("FailedToProcess", "app.json")
    /\ Printed("NotFound", "package.json")
    /\ \E k \in 1..Len(sedLog) : ~sedLog[k].applied

====
